---- MODULE Spec2Model ----
(***************************************************************************)
(* Model of behavior_studio/utils/controller.py: the Controller's shared   *)
(* state store (update_frame / get_data), the pose slot (update_pose3d /   *)
(* get_pose3D) with the two locks, the rosbag recording toggle             *)
(* (record_rosbag / stop_record) and the headless command server           *)
(* (start_listening / parse_msg / send_response).                          *)
(***************************************************************************)
EXTENDS Integers, Sequences, FiniteSets, TLC

\* ------------------------------------------------------------------ bounds
\* update_frame calls recorded in the host-side history
MaxOps == 3
\* processes started by record_rosbag / stop_record
MaxSpawn == 4
\* command frames one peer writes on its connection
MaxFrames == 2
\* peers that connect to the listening socket
MaxConns == 1
\* threads that call the store and the pose slot concurrently, each making one call
NThreads == 3

\* ------------------------------------------------------- values and inputs
\* Python values held by the store: None and small ints
None == [t |-> "NoneType"]
PyInt(n) == [t |-> "int", v |-> n]
Keys == {"camera", "lidar"}
Values == {PyInt(1), PyInt(2)}
Datasets == {"bag_a", "bag_b"}
Topics == {<<>>, <<"/odom">>}
Threads == 1..NThreads

VARIABLES
    \* Controller fields
    data,          \* self.data: dict frame_id -> value (a function on the keys written)
    recording,     \* self.recording
    rosbag_proc,   \* self.rosbag_proc: "unset" (attribute never assigned) or "Popen"
    headless,      \* self.headless
    pilot,         \* self.pilot: "unset" until set_pilot, then "set"
    stop_event,    \* self.pilot.stop_event
    \* the world outside the Controller
    spawned,       \* commands handed to subprocess.Popen, in order
    facade,        \* calls made on rospy services and on the pilot, in order
    backlog,       \* peers connected to the listening socket and not yet accepted
    conns,         \* peers that have connected so far
    peer,          \* the accepted peer's end: "none", "open", "eof", "reset"
    wire,          \* bytes the peer has written and recv has not returned yet
    sent,          \* the command texts the peer has written on this connection
    out,           \* what sendall has written on client_connection, one entry per call
    \* the listener thread (start_listening)
    pc,            \* "none", "accept", "recv", "parse_msg", "terminated"
    client_connection, \* "none", "open", "closed"
    buffer,        \* local data of start_listening
    msg,           \* local msg of start_listening, handed to parse_msg
    thread_exc,    \* the exception that left start_listening, "none" while it runs
    recv_ret,      \* what recv last returned: "none" (no call yet), "bytes", "empty"
    dispatched,    \* the messages handed to parse_msg on this connection, in order
    str_is_bytes,  \* the interpreter: TRUE when str is the byte string type (Python 2)
    \* host-side callers
    log,           \* history of the host's update_frame calls
    ret,           \* what the host's last get_data returned, and when
    exc,           \* the exception the host's last call raised, "none" if it returned
    call,          \* the host's last call on the Controller, "none" before the first
    \* the pose slot, the two locks and the threads that call the store concurrently
    pose3D_data,   \* self.pose3D_data
    data_loc,      \* self.__data_loc: the thread that holds it, 0 when free
    pose_loc,      \* self.__pose_loc: the thread that holds it, 0 when free
    tpc,           \* each thread's position in its call: "idle", "enter", "locked",
                   \* "exit", "done"
    top,           \* each thread's call: its name and arguments
    tret           \* what each thread's call read, and after how many writes

storeVars == <<data, log, ret>>
recVars == <<recording, rosbag_proc, spawned, exc, call>>
pilotVars == <<pilot, stop_event, facade>>
netVars == <<backlog, conns, peer, wire, sent, out>>
concVars == <<pose3D_data, data_loc, pose_loc, tpc, top, tret>>
threadVars == <<pc, client_connection, buffer, msg, thread_exc, recv_ret, dispatched>>
vars == <<data, recording, rosbag_proc, headless, pilot, stop_event, spawned, facade,
          backlog, conns, peer, wire, sent, out, pc, client_connection, buffer, msg,
          thread_exc, recv_ret, dispatched, str_is_bytes, log, ret, exc, call,
          pose3D_data, data_loc, pose_loc, tpc, top, tret>>

\* --------------------------------------------------------------- the store
\* a store that keeps the first value written under a key
update_frame_keep_first(frame_id, value) ==
    data' = [k \in DOMAIN data \cup {frame_id} |->
                IF k \in DOMAIN data THEN data[k] ELSE value]

\* a store in which a write replaces the whole mapping
update_frame_replace_all(frame_id, value) ==
    data' = [k \in {frame_id} |-> value]

\* self.data[frame_id] = data, under __data_loc
update_frame(frame_id, value) ==
    data' = [k \in DOMAIN data \cup {frame_id} |->
                IF k = frame_id THEN value ELSE data[k]]

\* self.data.get(frame_id, None), under __data_loc
get_data(frame_id) ==
    IF frame_id \in DOMAIN data THEN data[frame_id] ELSE None

\* ------------------------------------------------------ the recording toggle
RecordCommand(dataset_name) == [cmd |-> "rosbag record", arg |-> dataset_name]
KillCommand == [cmd |-> "rosnode kill", arg |-> "/behav_bag"]

\* capture processes started so far
Captures(s) == Cardinality({i \in 1..Len(s) : s[i].cmd = "rosbag record"})
\* stop requests issued so far
Kills(s) == Cardinality({i \in 1..Len(s) : s[i].cmd = "rosnode kill"})

\* stop_record: reading self.rosbag_proc raises AttributeError while the attribute has
\* never been assigned; a Popen object is always true
stop_record ==
    IF rosbag_proc = "unset"
    THEN /\ exc' = "AttributeError"
         /\ UNCHANGED <<recording, rosbag_proc, spawned>>
    ELSE IF recording
    THEN /\ recording' = FALSE
         /\ spawned' = Append(spawned, KillCommand)
         /\ exc' = "none"
         /\ UNCHANGED rosbag_proc
    ELSE /\ exc' = "none"
         /\ UNCHANGED <<recording, rosbag_proc, spawned>>

\* a start that never toggles: a capture process is started on every call
record_rosbag_no_toggle(topics, dataset_name) ==
    /\ recording' = TRUE
    /\ spawned' = Append(spawned, RecordCommand(dataset_name))
    /\ rosbag_proc' = "Popen"
    /\ exc' = "none"

\* record_rosbag: the topics argument is overwritten before use
record_rosbag(topics, dataset_name) ==
    IF ~recording
    THEN /\ recording' = TRUE
         /\ spawned' = Append(spawned, RecordCommand(dataset_name))
         /\ rosbag_proc' = "Popen"
         /\ exc' = "none"
    ELSE stop_record

\* ------------------------------------------------------------ the protocol
\* socket.MSG_WAITALL, which start_listening passes to recv as the buffer size
MSG_WAITALL == 256

\* command texts a peer writes, each followed by the delimiter
GetCamera == "{\"op\":\"01\",\"params\":[\"camera\"]}"
InitializeRobot == "{\"op\":\"02\",\"params\":[]}"
ReloadBehavior == "{\"op\":\"03\",\"params\":[\"brain_a\"]}"
StartRecording == "{\"op\":\"04\",\"params\":[]}"
StopRecording == "{\"op\":\"05\",\"params\":[]}"
PauseSimulation == "{\"op\":\"06\",\"params\":[]}"
ResumeSimulation == "{\"op\":\"07\",\"params\":[]}"
ResetSimulation == "{\"op\":\"08\",\"params\":[]}"
UnknownOp == "{\"op\":\"09\",\"params\":[]}"
NotHexOp == "{\"op\":\"zz\",\"params\":[]}"
MissingOp == "{\"params\":[]}"
MissingParams == "{\"op\":\"06\"}"
NotJson == "{\"op\":"

MutatingTexts == {InitializeRobot, ReloadBehavior, StartRecording, StopRecording,
                  PauseSimulation, ResumeSimulation, ResetSimulation}
UndecodableTexts == {NotHexOp, MissingOp, NotJson}
Texts == {GetCamera, UnknownOp, MissingParams} \cup MutatingTexts
             \cup UndecodableTexts

Delim == <<"#", "#">>

\* json.loads(msg.decode('utf-8')) on the bytes before a delimiter:
\* the parsed object, or ok = FALSE where json.loads raises ValueError
json_loads(m) ==
    IF Len(m) # 1 THEN [ok |-> FALSE]
    ELSE CASE m[1] = GetCamera -> [ok |-> TRUE, obj |-> [op |-> <<"0", "1">>, params |-> <<"camera">>]]
           [] m[1] = InitializeRobot -> [ok |-> TRUE, obj |-> [op |-> <<"0", "2">>, params |-> <<>>]]
           [] m[1] = ReloadBehavior -> [ok |-> TRUE, obj |-> [op |-> <<"0", "3">>, params |-> <<"brain_a">>]]
           [] m[1] = StartRecording -> [ok |-> TRUE, obj |-> [op |-> <<"0", "4">>, params |-> <<>>]]
           [] m[1] = StopRecording -> [ok |-> TRUE, obj |-> [op |-> <<"0", "5">>, params |-> <<>>]]
           [] m[1] = PauseSimulation -> [ok |-> TRUE, obj |-> [op |-> <<"0", "6">>, params |-> <<>>]]
           [] m[1] = ResumeSimulation -> [ok |-> TRUE, obj |-> [op |-> <<"0", "7">>, params |-> <<>>]]
           [] m[1] = ResetSimulation -> [ok |-> TRUE, obj |-> [op |-> <<"0", "8">>, params |-> <<>>]]
           [] m[1] = UnknownOp -> [ok |-> TRUE, obj |-> [op |-> <<"0", "9">>, params |-> <<>>]]
           [] m[1] = NotHexOp -> [ok |-> TRUE, obj |-> [op |-> <<"z", "z">>, params |-> <<>>]]
           [] m[1] = MissingOp -> [ok |-> TRUE, obj |-> [params |-> <<>>]]
           [] m[1] = MissingParams -> [ok |-> TRUE, obj |-> [op |-> <<"0", "6">>]]
           [] OTHER -> [ok |-> FALSE]

\* the value of one base-16 digit, -1 for any other character
HexDigit(c) ==
    CASE c = "0" -> 0 [] c = "1" -> 1 [] c = "2" -> 2 [] c = "3" -> 3
      [] c = "4" -> 4 [] c = "5" -> 5 [] c = "6" -> 6 [] c = "7" -> 7
      [] c = "8" -> 8 [] c = "9" -> 9 [] c = "a" -> 10 [] c = "b" -> 11
      [] c = "c" -> 12 [] c = "d" -> 13 [] c = "e" -> 14 [] c = "f" -> 15
      [] OTHER -> -1

RECURSIVE HexValue(_)
HexValue(s) ==
    IF s = <<>> THEN 0
    ELSE 16 * HexValue(SubSeq(s, 1, Len(s) - 1)) + HexDigit(s[Len(s)])

\* int(s, 16): ok = FALSE where int raises ValueError
int16(s) ==
    IF s = <<>> \/ \E i \in 1..Len(s) : HexDigit(s[i]) < 0
    THEN [ok |-> FALSE]
    ELSE [ok |-> TRUE, val |-> HexValue(s)]

\* OP_CODE.<name>.value: Enum numbers its members from 1 in declaration order
OP_CODE ==
    [get_data |-> 1, initialize_robot |-> 2, reload_brain |-> 3, record_rosbag |-> 4,
     stop_record |-> 5, pause_gazebo |-> 6, unpause_gazebo |-> 7, reset_gazebo |-> 8]

\* the decimal digits of n >= 0 as ASCII codes
RECURSIVE DecDigits(_)
DecDigits(n) ==
    IF n < 10 THEN <<48 + n>> ELSE DecDigits(n \div 10) \o <<48 + (n % 10)>>

\* pickle.dumps(value, 0), as bytes: None is N. and an int n is I<n>\n.
pickle_dumps(value) ==
    IF value = None THEN <<78, 46>>
    ELSE <<73>> \o DecDigits(value.v) \o <<10, 46>>

\* struct.pack(">L", size): four bytes, most significant first
struct_pack(size) ==
    <<(size \div 16777216) % 256, (size \div 65536) % 256, (size \div 256) % 256,
      size % 256>>

\* -------------------------------------------- handlers, as state transformers
\* What a handler works on: the pilot's stop event, the collaborator calls made, the
\* bytes sent, the recording session, and the exception that is propagating ("none"
\* while it runs).
World == [stop_event |-> stop_event, facade |-> facade, out |-> out,
          recording |-> recording, rosbag_proc |-> rosbag_proc, spawned |-> spawned,
          exc |-> "none"]

Raise(w, e) == [w EXCEPT !.exc = e]

\* Each statement below is skipped while an exception is propagating (w.exc is set),
\* so nesting them reads as the statements of the method in order.

\* a call on a collaborator, which returns (ok) or raises
Call(w, name, arg, ok) ==
    LET made == [w EXCEPT !.facade =
                    Append(@, [call |-> name, arg |-> arg, stop |-> w.stop_event,
                               raised |-> ~ok])]
    IN  IF w.exc # "none" THEN w
        ELSE IF ok THEN made ELSE Raise(made, "CollaboratorError")

\* self.pilot.stop_event.set(); self.pilot raises AttributeError before set_pilot
pause_pilot(w) ==
    IF w.exc # "none" THEN w
    ELSE IF pilot = "unset" THEN Raise(w, "AttributeError")
    ELSE [w EXCEPT !.stop_event = TRUE]

\* self.pilot.stop_event.clear()
resume_pilot(w) ==
    IF w.exc # "none" THEN w
    ELSE IF pilot = "unset" THEN Raise(w, "AttributeError")
    ELSE [w EXCEPT !.stop_event = FALSE]

\* an initialization that calls the pilot without pausing it first
initialize_robot_unpaused(w, ok) ==
    resume_pilot(Call(w, "pilot.initialize_robot", "", ok))

\* pause_pilot(); self.pilot.initialize_robot(); resume_pilot()
initialize_robot(w, ok) ==
    resume_pilot(Call(pause_pilot(w), "pilot.initialize_robot", "", ok))

\* pause_pilot(); self.pilot.reload_brain(brain); resume_pilot()
reload_brain(w, brain, ok) ==
    resume_pilot(Call(pause_pilot(w), "pilot.reload_brain", brain, ok))

\* a reset that also resumes the pilot
reset_gazebo_simulation_resumes(w, ok) ==
    resume_pilot(Call(w, "/gazebo/reset_world", "", ok))

\* reset_physics()
reset_gazebo_simulation(w, ok) == Call(w, "/gazebo/reset_world", "", ok)

\* pause_physics(); self.pilot.stop_event.set()
pause_gazebo_simulation(w, ok) ==
    pause_pilot(Call(w, "/gazebo/pause_physics", "", ok))

\* self.pilot.stop_event.clear(); the unpause_physics service call is commented out
unpause_gazebo_simulation(w) == resume_pilot(w)

\* a response written without its length prefix
send_response_no_prefix(w, response) ==
    IF peer = "reset" THEN Raise(w, "ConnectionError")
    ELSE [w EXCEPT !.out = Append(@, pickle_dumps(response))]

\* sendall raises once the peer has reset the connection
send_response(w, response) ==
    LET compressed_data == pickle_dumps(response)
        size == Len(compressed_data)
    IN  IF peer = "reset" THEN Raise(w, "ConnectionError")
        ELSE [w EXCEPT !.out = Append(@, struct_pack(size) \o compressed_data)]

\* params[0]: UnboundLocalError when params was never bound, IndexError when empty
Param0(obj) ==
    IF "params" \notin DOMAIN obj THEN [ok |-> FALSE, exc |-> "UnboundLocalError"]
    ELSE IF obj.params = <<>> THEN [ok |-> FALSE, exc |-> "IndexError"]
    ELSE [ok |-> TRUE, val |-> obj.params[1]]

\* an unknown operation answered with an error reply
undefined_operation_replies(w) == send_response(w, None)

\* the final else of parse_msg: print('Undefined operation')
undefined_operation(w) == w

\* a StartRecording frame that toggles the recording session
start_recording_op_toggles(w) ==
    [w EXCEPT !.recording = TRUE, !.rosbag_proc = "Popen",
              !.spawned = Append(@, RecordCommand("bag_a"))]

\* elif op == OP_CODE['record_rosbag']: response = b'200'
start_recording_op(w) == w

\* elif op == OP_CODE['stop_record']: response = b'200'
stop_recording_op(w) == w

\* the if / elif chain of parse_msg on a bound op
Dispatch(w, op, obj, ok) ==
    IF op = OP_CODE.get_data
    THEN LET p == Param0(obj)
         IN  IF p.ok THEN send_response(w, get_data(p.val)) ELSE Raise(w, p.exc)
    ELSE IF op = OP_CODE.initialize_robot THEN initialize_robot(w, ok)
    ELSE IF op = OP_CODE.reload_brain
    THEN LET p == Param0(obj)
         IN  IF p.ok THEN reload_brain(w, p.val, ok) ELSE Raise(w, p.exc)
    ELSE IF op = OP_CODE.record_rosbag THEN start_recording_op(w)
    ELSE IF op = OP_CODE.stop_record THEN stop_recording_op(w)
    ELSE IF op = OP_CODE.pause_gazebo THEN pause_gazebo_simulation(w, ok)
    ELSE IF op = OP_CODE.unpause_gazebo THEN unpause_gazebo_simulation(w)
    ELSE IF op = OP_CODE.reset_gazebo THEN reset_gazebo_simulation(w, ok)
    ELSE undefined_operation(w)

\* parse_msg: json.loads is outside the try; the except clause only prints, so a
\* failed int(msg['op'], 16) or msg['op'] leaves op unbound and the first comparison
\* raises UnboundLocalError; response = b'200' is assigned and never sent
parse_msg(w, m, ok) ==
    LET j == json_loads(m)
    IN  IF ~j.ok THEN Raise(w, "ValueError")
        ELSE IF "op" \notin DOMAIN j.obj THEN Raise(w, "UnboundLocalError")
        ELSE LET op == int16(j.obj.op)
             IN  IF ~op.ok THEN Raise(w, "UnboundLocalError")
                 ELSE Dispatch(w, op.val, j.obj, ok)

\* ------------------------------------------------------- the listener thread
\* "##" in data
HasDelim(b) == \E i \in 1..(Len(b) - 1) : b[i] = "#" /\ b[i + 1] = "#"
\* an index that finds the last delimiter of the buffer
Index_last(b) ==
    CHOOSE i \in 1..(Len(b) - 1) :
        /\ b[i] = "#" /\ b[i + 1] = "#"
        /\ \A j \in (i + 1)..(Len(b) - 1) : ~(b[j] = "#" /\ b[j + 1] = "#")

\* data.index('##'), counted from 1
Index(b) ==
    CHOOSE i \in 1..(Len(b) - 1) :
        /\ b[i] = "#" /\ b[i + 1] = "#"
        /\ \A j \in 1..(i - 1) : ~(b[j] = "#" /\ b[j + 1] = "#")

\* An exception leaves the inner loop: the finally clause closes client_connection,
\* and with no except clause the exception leaves start_listening and ends the thread.
Unwind(e) ==
    /\ client_connection' = "closed"
    /\ pc' = "terminated"
    /\ thread_exc' = e

\* Lines 98-103 on the buffer after data += recv(...): one test of "##" in data per
\* recv. Where str is not the byte string type the test raises TypeError.
Scan(b) ==
    IF ~str_is_bytes
    THEN /\ Unwind("TypeError")
         /\ buffer' = b
         /\ UNCHANGED msg
    ELSE IF HasDelim(b)
    THEN /\ msg' = SubSeq(b, 1, Index(b) - 1)
         /\ buffer' = SubSeq(b, Index(b) + 2, Len(b))
         /\ pc' = "parse_msg"
         /\ UNCHANGED <<client_connection, thread_exc>>
    ELSE /\ buffer' = b
         /\ pc' = "recv"
         /\ UNCHANGED <<msg, client_connection, thread_exc>>

\* self.serversocket.accept() returns; data = b''
Accept ==
    /\ pc = "accept"
    /\ backlog > 0
    /\ backlog' = backlog - 1
    /\ client_connection' = "open"
    /\ peer' = "open"
    /\ wire' = <<>>
    /\ sent' = <<>>
    /\ out' = <<>>
    /\ buffer' = <<>>
    /\ pc' = "recv"
    /\ recv_ret' = "none"
    /\ dispatched' = <<>>
    /\ UNCHANGED <<msg, thread_exc, conns, storeVars, recVars, pilotVars, headless,
                   str_is_bytes, concVars>>

\* recv returns the next n bytes in flight, at most the buffer size
RecvBytes(n) ==
    /\ pc = "recv"
    /\ peer # "reset"
    /\ n \in 1..Len(wire)
    /\ n <= MSG_WAITALL
    /\ wire' = SubSeq(wire, n + 1, Len(wire))
    /\ recv_ret' = "bytes"
    /\ Scan(buffer \o SubSeq(wire, 1, n))
    /\ UNCHANGED dispatched
    /\ UNCHANGED <<backlog, conns, peer, sent, out, storeVars, recVars, pilotVars,
                   headless, str_is_bytes, concVars>>

\* the peer has closed its end and nothing is in flight: recv returns b''
RecvEOF ==
    /\ pc = "recv"
    /\ peer = "eof"
    /\ wire = <<>>
    /\ recv_ret' = "empty"
    /\ Scan(buffer)
    /\ UNCHANGED dispatched
    /\ UNCHANGED <<netVars, storeVars, recVars, pilotVars, headless, str_is_bytes, concVars>>

\* the peer has reset the connection: recv raises
RecvError ==
    /\ pc = "recv"
    /\ peer = "reset"
    /\ Unwind("ConnectionError")
    /\ UNCHANGED <<buffer, msg, recv_ret, dispatched, netVars, storeVars, recVars, pilotVars,
                   headless, str_is_bytes, concVars>>

\* self.parse_msg(msg, client_connection), then back to recv
ParseMsg ==
    /\ pc = "parse_msg"
    /\ dispatched' = Append(dispatched, msg)
    /\ \E ok \in BOOLEAN :
        LET w == parse_msg(World, msg, ok)
        IN  /\ stop_event' = w.stop_event
            /\ facade' = w.facade
            /\ out' = w.out
            /\ recording' = w.recording
            /\ rosbag_proc' = w.rosbag_proc
            /\ spawned' = w.spawned
            /\ IF w.exc = "none"
               THEN /\ pc' = "recv"
                    /\ UNCHANGED <<client_connection, thread_exc>>
               ELSE Unwind(w.exc)
    /\ UNCHANGED <<buffer, msg, recv_ret, backlog, conns, peer, wire, sent, pilot,
                   storeVars, exc, call, headless, str_is_bytes, concVars>>

\* ------------------------------------------------------------------ the peer
\* the peer connects; it holds one connection at a time, and connects again only
\* once its connection is no longer served
PeerConnect ==
    /\ headless
    /\ conns < MaxConns
    /\ backlog = 0
    /\ client_connection # "open"
    /\ conns' = conns + 1
    /\ backlog' = backlog + 1
    /\ UNCHANGED <<peer, wire, sent, out, threadVars, storeVars, recVars, pilotVars,
                   headless, str_is_bytes, concVars>>

\* the peer writes one command text and the delimiter, while the server's end is open
PeerSend(text) ==
    /\ peer = "open"
    /\ client_connection = "open"
    /\ Len(sent) < MaxFrames
    /\ wire' = wire \o <<text>> \o Delim
    /\ sent' = Append(sent, text)
    /\ UNCHANGED <<backlog, conns, peer, out, threadVars, storeVars, recVars, pilotVars,
                   headless, str_is_bytes, concVars>>

\* the peer closes its end; what it wrote is still delivered
PeerClose ==
    /\ peer = "open"
    /\ client_connection = "open"
    /\ peer' = "eof"
    /\ UNCHANGED <<backlog, conns, wire, sent, out, threadVars, storeVars, recVars,
                   pilotVars, headless, str_is_bytes, concVars>>

\* the peer resets the connection; what was in flight is lost
PeerReset ==
    /\ peer \in {"open", "eof"}
    /\ client_connection = "open"
    /\ peer' = "reset"
    /\ wire' = <<>>
    /\ UNCHANGED <<backlog, conns, sent, out, threadVars, storeVars, recVars, pilotVars,
                   headless, str_is_bytes, concVars>>

\* ------------------------------------------------------------------ the host
set_pilot ==
    /\ pilot = "unset"
    /\ pilot' = "set"
    /\ UNCHANGED <<stop_event, facade, netVars, threadVars, storeVars, recVars,
                   headless, str_is_bytes, concVars>>

\* the producer thread publishes a value while the server runs (the server's peer
\* only asks for "camera", so that is the key the producer writes here)
ProducerUpdate(frame_id, value) ==
    /\ update_frame(frame_id, value)
    /\ UNCHANGED <<log, ret, netVars, threadVars, recVars, pilotVars, headless,
                   str_is_bytes, concVars>>

HostUpdateFrame(frame_id, value) ==
    /\ Len(log) < MaxOps
    /\ update_frame(frame_id, value)
    /\ log' = Append(log, [key |-> frame_id, value |-> value])
    /\ call' = "update_frame"
    /\ exc' = "none"
    /\ UNCHANGED <<ret, recording, rosbag_proc, spawned, netVars, threadVars, pilotVars,
                   headless, str_is_bytes, concVars>>

HostGetData(frame_id) ==
    /\ ret' = [called |-> TRUE, key |-> frame_id, val |-> get_data(frame_id),
               at |-> Len(log)]
    /\ call' = "get_data"
    /\ exc' = "none"
    /\ UNCHANGED <<data, log, recording, rosbag_proc, spawned, netVars, threadVars,
                   pilotVars, headless, str_is_bytes, concVars>>

HostRecord(topics, dataset_name) ==
    /\ Len(spawned) < MaxSpawn
    /\ record_rosbag(topics, dataset_name)
    /\ call' = "record_rosbag"
    /\ UNCHANGED <<storeVars, netVars, threadVars, pilotVars, headless, str_is_bytes, concVars>>

HostStop ==
    /\ Len(spawned) < MaxSpawn
    /\ stop_record
    /\ call' = "stop_record"
    /\ UNCHANGED <<storeVars, netVars, threadVars, pilotVars, headless, str_is_bytes, concVars>>

\* ------------------------------------------- the store and the pose slot, threaded
\* self.pose3D_data = data, under __pose_loc
update_pose3d(value) == pose3D_data' = value

\* return self.pose3D_data: no lock is taken
get_pose3D == pose3D_data

\* a store whose pose methods take the frame-data lock
LockOf_one_lock(name) == "__data_loc"

\* the lock a method's with statement names
LockOf(name) ==
    IF name \in {"update_frame", "get_data"} THEN "__data_loc" ELSE "__pose_loc"

\* a lock that any thread can take at any time
Lock_acquire_unguarded(holder) == TRUE

\* threading.Lock.acquire returns only while no thread holds the lock
Lock_acquire(holder) == holder = 0

NoCall == [name |-> "none", key |-> "", value |-> None]
NoRet == [val |-> None, at |-> 0]

\* thread t enters one of the four methods with its arguments
ThreadCall(t, name, key, value) ==
    /\ tpc[t] = "idle"
    /\ tpc' = [tpc EXCEPT ![t] = "enter"]
    /\ top' = [top EXCEPT ![t] = [name |-> name, key |-> key, value |-> value]]
    /\ UNCHANGED <<pose3D_data, data_loc, pose_loc, tret, storeVars, netVars, threadVars,
                   recVars, pilotVars, headless, str_is_bytes>>

\* with self.__data_loc: / with self.__pose_loc: the thread takes the lock
ThreadAcquire(t) ==
    /\ tpc[t] = "enter"
    /\ top[t].name # "get_pose3D"
    /\ IF LockOf(top[t].name) = "__data_loc"
       THEN /\ Lock_acquire(data_loc)
            /\ data_loc' = t
            /\ UNCHANGED pose_loc
       ELSE /\ Lock_acquire(pose_loc)
            /\ pose_loc' = t
            /\ UNCHANGED data_loc
    /\ tpc' = [tpc EXCEPT ![t] = "locked"]
    /\ tret' = [tret EXCEPT ![t].at = Len(log)]
    /\ UNCHANGED <<pose3D_data, top, storeVars, netVars, threadVars, recVars, pilotVars,
                   headless, str_is_bytes>>

\* the statement inside the with block
ThreadBody(t) ==
    /\ tpc[t] = "locked"
    /\ tpc' = [tpc EXCEPT ![t] = "exit"]
    /\ CASE top[t].name = "update_frame" ->
                /\ update_frame(top[t].key, top[t].value)
                /\ log' = Append(log, [key |-> top[t].key, value |-> top[t].value])
                /\ UNCHANGED <<pose3D_data, tret>>
         [] top[t].name = "get_data" ->
                /\ tret' = [tret EXCEPT ![t].val = get_data(top[t].key)]
                /\ UNCHANGED <<data, log, pose3D_data>>
         [] OTHER ->
                /\ update_pose3d(top[t].value)
                /\ log' = Append(log, [key |-> "pose3D", value |-> top[t].value])
                /\ UNCHANGED <<data, tret>>
    /\ UNCHANGED <<data_loc, pose_loc, top, ret, netVars, threadVars, recVars, pilotVars,
                   headless, str_is_bytes>>

\* the with block ends: the lock is released and the method returns
ThreadRelease(t) ==
    /\ tpc[t] = "exit"
    /\ tpc' = [tpc EXCEPT ![t] = "done"]
    /\ IF LockOf(top[t].name) = "__data_loc"
       THEN data_loc' = 0 /\ UNCHANGED pose_loc
       ELSE pose_loc' = 0 /\ UNCHANGED data_loc
    /\ UNCHANGED <<pose3D_data, top, tret, storeVars, netVars, threadVars, recVars,
                   pilotVars, headless, str_is_bytes>>

\* get_pose3D: one read of the attribute, then return
ThreadGetPose(t) ==
    /\ tpc[t] = "enter"
    /\ top[t].name = "get_pose3D"
    /\ tpc' = [tpc EXCEPT ![t] = "done"]
    /\ tret' = [tret EXCEPT ![t] = [val |-> get_pose3D, at |-> Len(log)]]
    /\ UNCHANGED <<pose3D_data, data_loc, pose_loc, top, storeVars, netVars, threadVars,
                   recVars, pilotVars, headless, str_is_bytes>>

\* ------------------------------------------------------------ specifications
\* __init__: with headless the listener thread is started before set_pilot can run
Init ==
    /\ data = <<>>
    /\ recording = FALSE
    /\ rosbag_proc = "unset"
    /\ headless \in BOOLEAN
    /\ pilot = "unset"
    /\ stop_event = FALSE
    /\ spawned = <<>>
    /\ facade = <<>>
    /\ backlog = 0
    /\ conns = 0
    /\ peer = "none"
    /\ wire = <<>>
    /\ sent = <<>>
    /\ out = <<>>
    /\ pc = IF headless THEN "accept" ELSE "none"
    /\ client_connection = "none"
    /\ buffer = <<>>
    /\ msg = <<>>
    /\ thread_exc = "none"
    /\ recv_ret = "none"
    /\ str_is_bytes \in BOOLEAN
    /\ log = <<>>
    /\ ret = [called |-> FALSE, key |-> "", val |-> None, at |-> 0]
    /\ exc = "none"
    /\ call = "none"
    /\ dispatched = <<>>
    /\ pose3D_data = None
    /\ data_loc = 0
    /\ pose_loc = 0
    /\ tpc = [t \in Threads |-> "idle"]
    /\ top = [t \in Threads |-> NoCall]
    /\ tret = [t \in Threads |-> NoRet]

\* the command server with its peer, the producer and the host's set_pilot
Next ==
    \/ Accept
    \/ \E n \in 1..(3 * MaxFrames) : RecvBytes(n)
    \/ RecvEOF
    \/ RecvError
    \/ ParseMsg
    \/ PeerConnect
    \/ \E text \in Texts : PeerSend(text)
    \/ PeerClose
    \/ PeerReset
    \/ set_pilot
    \/ \E v \in Values : ProducerUpdate("camera", v)

Spec == Init /\ [][Next]_vars

\* the Controller used in-process (headless = False): the host's calls
InitHost == Init /\ ~headless /\ str_is_bytes

NextHost ==
    \/ \E k \in Keys, v \in Values : HostUpdateFrame(k, v)
    \/ \E k \in Keys : HostGetData(k)
    \/ \E t \in Topics, d \in Datasets : HostRecord(t, d)
    \/ HostStop

SpecHost == InitHost /\ [][NextHost]_vars

\* the Controller used in-process by several threads at once: the producer's
\* update_frame and update_pose3d, the consumers' get_data and get_pose3D; a writing
\* thread writes its own number, so that a value read names the thread that wrote it
InitConc == Init /\ ~headless /\ str_is_bytes

NextConc ==
    \/ \E t \in Threads, k \in Keys : ThreadCall(t, "update_frame", k, PyInt(t))
    \/ \E t \in Threads, k \in Keys : ThreadCall(t, "get_data", k, None)
    \/ \E t \in Threads : ThreadCall(t, "update_pose3d", "", PyInt(t))
    \/ \E t \in Threads : ThreadCall(t, "get_pose3D", "", None)
    \/ \E t \in Threads : ThreadAcquire(t)
    \/ \E t \in Threads : ThreadBody(t)
    \/ \E t \in Threads : ThreadRelease(t)
    \/ \E t \in Threads : ThreadGetPose(t)

SpecConc == InitConc /\ [][NextConc]_vars

\* the command server serving recording frames while the host toggles the recording
InitRec == Init /\ headless /\ str_is_bytes

NextRec ==
    \/ Accept
    \/ \E n \in 1..(3 * MaxFrames) : RecvBytes(n)
    \/ ParseMsg
    \/ PeerConnect
    \/ \E text \in {StartRecording, StopRecording} : PeerSend(text)
    \/ \E d \in Datasets : HostRecord(<<>>, d)
    \/ HostStop

SpecRec == InitRec /\ [][NextRec]_vars

\* ------------------------------------------------------------------ claims
\* the value of the last update_frame on key k in history l, None if there is none
RECURSIVE LastWrite(_, _)
LastWrite(l, k) ==
    IF l = <<>> THEN None
    ELSE IF l[Len(l)].key = k THEN l[Len(l)].value
    ELSE LastWrite(SubSeq(l, 1, Len(l) - 1), k)

\* C1: get_data(k) returns None when update_frame(k, _) was never called, and otherwise
\* the value of the most recent update_frame(k, v), whatever was written under other
\* keys in between.
C1_GetDataReturnsLastWrite ==
    ret.called => ret.val = LastWrite(SubSeq(log, 1, ret.at), ret.key)

\* k was written twice with different values, then another key was written, and
\* get_data(k) returned the second value
C1_Witness ==
    /\ ret.called
    /\ ret.at = 3
    /\ log[1].key = ret.key /\ log[2].key = ret.key /\ log[3].key # ret.key
    /\ log[1].value # log[2].value
    /\ ret.val = log[2].value

\* parse_msg runs on the message text and returns or raises
DispatchStep(text) == pc = "parse_msg" /\ msg = <<text>> /\ pc' # "parse_msg"

\* the four length bytes of an outbound frame, read most significant first
FrameLength(f) == ((f[1] * 256 + f[2]) * 256 + f[3]) * 256 + f[4]
FramePayload(f) == SubSeq(f, 5, Len(f))
\* pickle protocol 0 of the values the store holds: N. for None, I1\n. and I2\n.
ExpectedPayload(v) ==
    IF v = None THEN <<78, 46>>
    ELSE IF v = PyInt(1) THEN <<73, 49, 10, 46>>
    ELSE <<73, 50, 10, 46>>
Stored(k) == IF k \in DOMAIN data THEN data[k] ELSE None

\* C2: dispatching a GetData frame for key k (here "camera") on a connection the peer
\* has not reset writes exactly one outbound frame: four big-endian length bytes N,
\* then exactly N bytes that serialize the value stored under k at dispatch time
\* (None when k was never written); the dispatch does not fail.
C2_GetDataReply ==
    [][(DispatchStep(GetCamera) /\ peer # "reset") =>
            /\ Len(out') = Len(out) + 1
            /\ SubSeq(out', 1, Len(out)) = out
            /\ Len(out'[Len(out')]) >= 4
            /\ FrameLength(out'[Len(out')]) = Len(FramePayload(out'[Len(out')]))
            /\ FramePayload(out'[Len(out')]) = ExpectedPayload(Stored("camera"))
            /\ pc' = "recv"
            /\ client_connection' = "open"]_vars

\* two GetData frames were answered on one connection: None for the key never
\* written, then the stored value 1
C2_Witness ==
    /\ pc = "recv"
    /\ Len(dispatched) = 2
    /\ out = << <<0, 0, 0, 2, 78, 46>>, <<0, 0, 0, 4, 73, 49, 10, 46>> >>

\* C3: a PauseSimulation frame whose dispatch returns has invoked the pause-physics
\* service exactly once and has sent exactly one outbound frame, the acknowledgement,
\* before the server is back in recv.
C3_MutatingOpAcknowledged ==
    [][(DispatchStep(PauseSimulation) /\ pc' = "recv") =>
            /\ Len(facade') = Len(facade) + 1
            /\ facade'[Len(facade')].call = "/gazebo/pause_physics"
            /\ Len(out') = Len(out) + 1]_vars

\* C4: whenever the server waits in recv and nothing is in flight, every complete
\* frame received has been extracted and dispatched: no delimiter is left in the buffer.
C4_NoCompleteFrameLeftWaiting ==
    (pc = "recv" /\ wire = <<>>) => ~HasDelim(buffer)

\* C5: dispatching a frame whose op is a hex number outside 1..8 sends nothing, invokes
\* no collaborator, changes neither the stop event nor the store, leaves the
\* connection open and the rest of the stream untouched, and the server is back in
\* recv for the next frame.
C5_UnknownOpIgnored ==
    [][DispatchStep(UnknownOp) =>
            /\ out' = out
            /\ facade' = facade
            /\ stop_event' = stop_event
            /\ data' = data
            /\ buffer' = buffer
            /\ wire' = wire
            /\ client_connection' = "open"
            /\ thread_exc' = "none"
            /\ pc' = "recv"]_vars

\* an unknown op was dispatched, then a GetData frame on the same connection was
\* dispatched and answered
C5_Witness ==
    /\ dispatched = << <<UnknownOp>>, <<GetCamera>> >>
    /\ Len(out) = 1
    /\ client_connection = "open"
    /\ pc = "recv"

\* C6: dispatching a frame that cannot be decoded (not JSON, no op field, op not
\* base 16) sends nothing and leaves the connection open and the server in recv.
C6_UndecodableFrameDropped ==
    [][\A text \in UndecodableTexts :
        DispatchStep(text) =>
            /\ out' = out
            /\ client_connection' = "open"
            /\ pc' = "recv"]_vars

\* C7: no connection-level I/O error, decode error or collaborator error ends the
\* listener thread.
C7_ListenerSurvivesFailures ==
    ~(pc = "terminated"
        /\ thread_exc \in {"ConnectionError", "ValueError", "UnboundLocalError",
                           "CollaboratorError"})

\* C8: once recv has returned end-of-stream the serve loop has ended and the client
\* socket is closed.
C8_ClosedOnPeerDisconnect ==
    recv_ret = "empty" => client_connection = "closed"

\* capture processes started and not yet asked to stop
LiveCaptures == Captures(spawned) - Kills(spawned)
RecordCall == \E t \in Topics, d \in Datasets : HostRecord(t, d)

\* C9: the recording session follows the toggle table: record_rosbag when idle starts
\* one capture process and makes the session active; record_rosbag when active stops
\* the session and starts no capture process; stop_record when active stops the
\* session; and at most one capture process is started and not stopped at any time.
C9_RecordingToggle ==
    /\ [][/\ (RecordCall /\ ~recording) =>
                /\ recording'
                /\ Captures(spawned') = Captures(spawned) + 1
                /\ Kills(spawned') = Kills(spawned)
          /\ (RecordCall /\ recording) =>
                /\ ~recording'
                /\ Captures(spawned') = Captures(spawned)
                /\ Kills(spawned') = Kills(spawned) + 1
          /\ (HostStop /\ recording) =>
                /\ ~recording'
                /\ Captures(spawned') = Captures(spawned)
                /\ Kills(spawned') = Kills(spawned) + 1]_vars
    /\ [](LiveCaptures = IF recording THEN 1 ELSE 0)

\* record_rosbag was called twice in a row: one capture started, then stopped by the
\* second call, and the session is inactive
C9_Witness ==
    /\ call = "record_rosbag"
    /\ ~recording
    /\ Len(spawned) = 2
    /\ spawned[1].cmd = "rosbag record"
    /\ spawned[2] = KillCommand

\* C10: stop_record with no session active does not raise, starts no process and
\* leaves the session inactive.
C10_StopWhenIdleIsNoOp ==
    [][(HostStop /\ ~recording) =>
            /\ exc' = "none"
            /\ spawned' = spawned
            /\ ~recording']_vars

\* thread t's call is update_frame on key k
Writer(t, k) == top[t].name = "update_frame" /\ top[t].key = k
\* thread t's call is get_data on key k
Reader(t, k) == top[t].name = "get_data" /\ top[t].key = k
AllReturned == \A t \in Threads : tpc[t] = "done"

\* C11: whenever an update_frame(k, v) call has returned and no other thread has
\* called update_frame on k, get_data(k) reads v, whatever the other threads were
\* doing meanwhile: concurrent writers on distinct keys lose no update.
C11_DistinctKeysNoLostUpdate ==
    \A t \in Threads : \A k \in Keys :
        (Writer(t, k) /\ tpc[t] = "done" /\ \A u \in Threads \ {t} : ~Writer(u, k))
            => get_data(k) = top[t].value

\* threads 1 and 2 wrote distinct keys, thread 2 holding the lock first, a third
\* thread made a call too, all have returned and both values are readable
C11_Witness ==
    /\ AllReturned
    /\ Writer(1, "camera") /\ Writer(2, "lidar")
    /\ top[3].name = "get_data"
    /\ log = << [key |-> "lidar", value |-> top[2].value],
                [key |-> "camera", value |-> top[1].value] >>
    /\ get_data("camera") = top[1].value
    /\ get_data("lidar") = top[2].value

\* thread t is inside a with self.__data_loc block
InDataLock(t) ==
    tpc[t] \in {"locked", "exit"} /\ top[t].name \in {"update_frame", "get_data"}

\* C12: a get_data(k) returns the value of the last update_frame on k that held the
\* data lock before the reader acquired it (the prior value, None, when there was
\* none); at most one thread is inside a data-lock block at a time; and the store
\* holds under each key exactly the value of the last write to it.
C12_SameKeyWritesLinearized ==
    /\ \A t \in Threads : \A k \in Keys :
            (Reader(t, k) /\ tpc[t] \in {"exit", "done"})
                => tret[t].val = LastWrite(SubSeq(log, 1, tret[t].at), k)
    /\ \A t \in Threads : \A u \in Threads : (InDataLock(t) /\ InDataLock(u)) => t = u
    /\ \A k \in Keys : get_data(k) = LastWrite(log, k)

\* threads 1 and 2 wrote different values under the same key while thread 3 read it:
\* thread 2 held the lock first, the reader next and read thread 2's value, thread 1
\* last, and the store holds thread 1's value
C12_Witness ==
    /\ AllReturned
    /\ Writer(1, "camera") /\ Writer(2, "camera") /\ Reader(3, "camera")
    /\ top[1].value # top[2].value
    /\ tret[3].at = 1
    /\ tret[3].val = top[2].value
    /\ get_data("camera") = top[1].value

PoseWrites(n) == {i \in 1..n : log[i].key = "pose3D"}

\* C17: no thread holds both locks; while some call is in progress some thread can
\* take a step (no deadlock); an update_pose3d waits only while the pose lock is held
\* and a get_pose3D never waits, whoever holds the frame-data lock; and get_pose3D
\* returns None before any update_pose3d and otherwise a value that an update_pose3d
\* stored.
C17_IndependentLocks ==
    /\ \A t \in Threads : ~(data_loc = t /\ pose_loc = t)
    /\ (\E t \in Threads : tpc[t] \in {"enter", "locked", "exit"})
            => \E t \in Threads :
                    ENABLED (ThreadAcquire(t) \/ ThreadBody(t) \/ ThreadRelease(t)
                                \/ ThreadGetPose(t))
    /\ \A t \in Threads :
            (tpc[t] = "enter" /\ top[t].name = "update_pose3d" /\ pose_loc = 0)
                => ENABLED ThreadAcquire(t)
    /\ \A t \in Threads :
            (tpc[t] = "enter" /\ top[t].name = "get_pose3D") => ENABLED ThreadGetPose(t)
    /\ \A t \in Threads :
            (top[t].name = "get_pose3D" /\ tpc[t] = "done")
                => IF PoseWrites(tret[t].at) = {}
                   THEN tret[t].val = None
                   ELSE \E i \in PoseWrites(tret[t].at) : tret[t].val = log[i].value

\* thread 1 is inside the frame-data lock while thread 2, which took the pose lock
\* after it, has stored a pose, and thread 3's get_pose3D has returned that pose
C17_Witness ==
    /\ data_loc = 1 /\ tpc[1] = "locked" /\ top[1].name = "update_frame"
    /\ pose_loc = 2 /\ tpc[2] = "exit" /\ top[2].name = "update_pose3d"
    /\ tpc[3] = "done" /\ top[3].name = "get_pose3D"
    /\ tret[3].val = top[2].value

\* the outbound frame that answers a GetData for the value v
Response(v) == struct_pack(Len(pickle_dumps(v))) \o pickle_dumps(v)

\* C14: on one connection the frames dispatched are, in order, the first frames the
\* peer wrote, and the frame being dispatched is the next one; a frame is added to the
\* dispatched ones only by its own parse_msg step, one at a time; and an outbound
\* frame is written only during the dispatch of a GetData frame, at the end of the
\* outbound stream, so responses leave in the order of their requests.
C14_FramesDispatchedInOrder ==
    /\ [](/\ Len(dispatched) <= Len(sent)
          /\ \A i \in 1..Len(dispatched) : dispatched[i] = <<sent[i]>>
          /\ pc = "parse_msg" =>
                /\ Len(dispatched) < Len(sent)
                /\ msg = <<sent[Len(dispatched) + 1]>>)
    /\ [][/\ dispatched' # dispatched =>
                \/ pc = "parse_msg" /\ dispatched' = Append(dispatched, msg)
                \/ pc = "accept" /\ dispatched' = <<>>
          /\ out' # out =>
                \/ DispatchStep(GetCamera) /\ out' = Append(out, Response(Stored("camera")))
                \/ pc = "accept" /\ out' = <<>>]_vars

\* two GetData frames were dispatched in the order sent while the producer changed
\* the stored value from 2 to 1 between them: the responses carry 2, then 1
C14_Witness ==
    /\ sent = <<GetCamera, GetCamera>>
    /\ dispatched = << <<GetCamera>>, <<GetCamera>> >>
    /\ out = << <<0, 0, 0, 4, 73, 50, 10, 46>>, <<0, 0, 0, 4, 73, 49, 10, 46>> >>

\* the dispatch step made a collaborator call, and the call raised
CollaboratorRaised ==
    /\ pc = "parse_msg" /\ pc' # "parse_msg"
    /\ Len(facade') = Len(facade) + 1
    /\ facade'[Len(facade')].raised

\* C13: when a collaborator call made during the dispatch of a frame raises, the
\* acknowledgement is still sent for that frame, the connection stays open and the
\* server is back in recv for the next frame.
C13_CollaboratorFailureContained ==
    [][CollaboratorRaised =>
            /\ Len(out') = Len(out) + 1
            /\ client_connection' = "open"
            /\ pc' = "recv"]_vars

PilotCalls == {"pilot.initialize_robot", "pilot.reload_brain"}

\* C15: every initialize_robot and reload_brain call on the pilot is made while the
\* stop event is set; a dispatch of InitializeRobot or ReloadBehavior that returns
\* has made exactly one such call (reload_brain with params[0], here "brain_a") and
\* leaves the stop event cleared.
C15_PauseCallResume ==
    /\ [](\A i \in 1..Len(facade) : facade[i].call \in PilotCalls => facade[i].stop)
    /\ [][/\ (DispatchStep(InitializeRobot) /\ pc' = "recv") =>
                /\ facade' = Append(facade, [call |-> "pilot.initialize_robot", arg |-> "",
                                             stop |-> TRUE, raised |-> FALSE])
                /\ ~stop_event'
          /\ (DispatchStep(ReloadBehavior) /\ pc' = "recv") =>
                /\ facade' = Append(facade, [call |-> "pilot.reload_brain",
                                             arg |-> "brain_a", stop |-> TRUE,
                                             raised |-> FALSE])
                /\ ~stop_event']_vars

\* InitializeRobot then ReloadBehavior were dispatched and returned: both pilot
\* calls were made with the stop event set, and the stop event is clear again
C15_Witness ==
    /\ dispatched = << <<InitializeRobot>>, <<ReloadBehavior>> >>
    /\ pc = "recv"
    /\ Len(facade) = 2
    /\ facade[1].call = "pilot.initialize_robot" /\ facade[1].stop
    /\ facade[2].call = "pilot.reload_brain" /\ facade[2].stop
    /\ ~stop_event

\* C16: a ResumeSimulation frame whose dispatch returns has invoked the
\* resume-physics service once and has cleared the stop event.
C16_ResumeRestartsPhysics ==
    [][(DispatchStep(ResumeSimulation) /\ pc' = "recv") =>
            /\ Len(facade') = Len(facade) + 1
            /\ facade'[Len(facade')].call = "/gazebo/unpause_physics"
            /\ ~stop_event']_vars

\* C18: dispatching a StartRecording or a StopRecording frame, with the recording
\* session idle or active, leaves the recording flag, the process handle and the
\* processes started and killed as they were, and leaves the frame store, the pose
\* slot and the stop event unchanged.
C18_RecordingFramesChangeNothing ==
    [][\A text \in {StartRecording, StopRecording} :
        DispatchStep(text) =>
            /\ recording' = recording
            /\ rosbag_proc' = rosbag_proc
            /\ spawned' = spawned
            /\ data' = data
            /\ pose3D_data' = pose3D_data
            /\ stop_event' = stop_event]_vars

\* the host started a recording, a StopRecording and a StartRecording frame were
\* dispatched, and the one session the host started is still active
C18_Witness ==
    /\ dispatched = << <<StopRecording>>, <<StartRecording>> >>
    /\ pc = "recv"
    /\ recording
    /\ rosbag_proc = "Popen"
    /\ Len(spawned) = 1

\* a PauseSimulation frame has been dispatched on this connection
PauseDispatched == \E i \in 1..Len(dispatched) : dispatched[i] = <<PauseSimulation>>

\* C19 as stated: once a PauseSimulation frame has been dispatched, only the dispatch
\* of a ResumeSimulation frame clears the stop event.
C19_StopSetUntilResume ==
    [][(PauseDispatched /\ stop_event /\ ~stop_event') =>
            DispatchStep(ResumeSimulation)]_vars

\* C19 amended: once a PauseSimulation frame has been dispatched, only the dispatch
\* of a ResumeSimulation, an InitializeRobot or a ReloadBehavior frame clears the
\* stop event; GetData, StartRecording, StopRecording and ResetSimulation leave it set.
C19_StopSetUntilResumeOrPilotOp ==
    [][(PauseDispatched /\ stop_event /\ ~stop_event') =>
            \/ DispatchStep(ResumeSimulation)
            \/ DispatchStep(InitializeRobot)
            \/ DispatchStep(ReloadBehavior)]_vars

\* PauseSimulation then ResetSimulation were dispatched and the stop event is
\* still set
C19_Witness ==
    /\ dispatched = << <<PauseSimulation>>, <<ResetSimulation>> >>
    /\ pc = "recv"
    /\ Len(facade) = 2
    /\ stop_event

\* C20: a dispatch of InitializeRobot or ReloadBehavior that starts with the stop
\* event clear ends with it clear, whether the pilot call returned or raised.
C20_ControlLoopNotLeftHalted ==
    [][\A text \in {InitializeRobot, ReloadBehavior} :
        (DispatchStep(text) /\ ~stop_event) => ~stop_event']_vars

====
